---- MODULE Spec2Model ----
(***************************************************************************)
(* Distribution fitting, selection, serialization and drawing of metasynth *)
(* (legacy tree selector, src/metasynth) and metasyn (src/metasyn).        *)
(***************************************************************************)
EXTENDS Integers, Sequences, FiniteSets, TLC

VARIABLES tree, store, last, log

vars == <<tree, store, last, log>>

(***************************************************************************)
(* Bounds of the model.                                                    *)
(***************************************************************************)
\* largest information criterion a fitted candidate reports (scores 0..MaxAic)
MaxAic == 1

(***************************************************************************)
(* The distribution tree (src/metasynth/disttree.py).                      *)
(***************************************************************************)
\* the properties "<var_type>_distributions" of BaseDistributionTree, in the
\* order dir() lists them (all_var_types)
AllVarTypes ==
    <<"categorical", "continuous", "date", "datetime", "discrete", "string", "time">>

VarTypes == {AllVarTypes[i] : i \in 1..Len(AllVarTypes)}

BuiltinDistributionTree ==
    [discrete    |-> <<"DiscreteUniformDistribution", "PoissonDistribution",
                       "UniqueKeyDistribution">>,
     continuous  |-> <<"UniformDistribution", "NormalDistribution",
                       "LogNormalDistribution", "TruncatedNormalDistribution">>,
     categorical |-> <<"CatFreqDistribution">>,
     string      |-> <<"RegexDistribution", "UniqueRegexDistribution",
                       "FakerDistribution">>,
     date        |-> <<"UniformDateDistribution">>,
     time        |-> <<"UniformTimeDistribution">>,
     datetime    |-> <<"UniformDateDistribution">>]

\* a tree of a caller's own subclass of BaseDistributionTree: its discrete list
\* is empty and its date list holds a class the builtin tree keeps for strings
CustomDistributionTree ==
    [discrete    |-> <<>>,
     continuous  |-> <<"NormalDistribution", "UniformDistribution">>,
     categorical |-> <<"CatFreqDistribution">>,
     string      |-> <<"FakerDistribution", "RegexDistribution">>,
     date        |-> <<"UniformDateDistribution">>,
     time        |-> <<"UniformTimeDistribution">>,
     datetime    |-> <<"UniformDateDistribution">>]

Trees == {BuiltinDistributionTree, CustomDistributionTree}

\* the absent value of Python (None), where a string is expected
None == "None"

\* a distribution instance: its class, its is_unique flag and its parameters
NoDist == [cls |-> None, is_unique |-> FALSE, param |-> 0]

\* what fitting one class to a series yields: the fitted instance's is_unique
\* flag, its parameters and the information criterion it reports on the series
ParamValues == {0, 1}

FitOutcomes == [is_unique : BOOLEAN, aic : 0..MaxAic, param : ParamValues]

\* outcome of an operation that raised
Raise(err) == [status |-> err, value |-> NoDist, warned |-> FALSE]

\* outcome of an operation that returned a distribution
Return(dist, warned) == [status |-> "ok", value |-> dist, warned |-> warned]

\* hasattr(self, var_type + "_distributions")
hasattr(tr, var_type) == var_type \in DOMAIN tr

get_dist_list(tr, var_type) == tr[var_type]

\* numpy.argmin: the first index of the smallest element
argmin(s) ==
    CHOOSE i \in 1..Len(s) :
        /\ \A j \in 1..Len(s) : s[i] <= s[j]
        /\ \A j \in 1..(i - 1) : s[j] > s[i]

\* Python's  x.is_unique == unique  for unique in None, True, False
PyEq(is_unique, unique) ==
    \/ unique = "True" /\ is_unique
    \/ unique = "False" /\ ~is_unique

\* [s[i] for i in range(len(s)) if keep[i]]
RECURSIVE Compress(_, _)
Compress(s, keep) ==
    IF Len(s) = 0 THEN <<>>
    ELSE (IF Head(keep) THEN <<Head(s)>> ELSE <<>>) \o Compress(Tail(s), Tail(keep))

\* d.fit(series) for the class d, given what the series makes of it
ClassFit(cls, outcome) ==
    [cls |-> cls, is_unique |-> outcome.is_unique, param |-> outcome.param]

\* the ranking lines of fit once the candidates are fitted and scored
FitRankIgnoringUnique(dist_instances, dist_aic, unique) ==
    Return(dist_instances[argmin(dist_aic)],
           dist_instances[argmin(dist_aic)].is_unique /\ unique = None)

FitRankUnfilteredScores(dist_instances, dist_aic, unique) ==
    LET i_best == argmin(dist_aic)
        warned == dist_instances[i_best].is_unique /\ unique = None
        keep == [i \in 1..Len(dist_instances) |-> PyEq(dist_instances[i].is_unique, unique)]
        f_inst == Compress(dist_instances, keep)
    IN  IF unique = None THEN Return(dist_instances[i_best], warned)
        ELSE IF Len(f_inst) = 0 THEN Raise("ValueError: No available distributions")
        ELSE Return(f_inst[IF i_best <= Len(f_inst) THEN i_best ELSE Len(f_inst)], warned)

FitRankNeverWarns(dist_instances, dist_aic, unique) ==
    LET i_best == argmin(dist_aic)
        keep == [i \in 1..Len(dist_instances) |-> PyEq(dist_instances[i].is_unique, unique)]
        f_aic == Compress(dist_aic, keep)
        f_inst == Compress(dist_instances, keep)
    IN  IF unique = None THEN Return(dist_instances[i_best], FALSE)
        ELSE IF Len(f_inst) = 0 THEN Raise("ValueError: No available distributions")
        ELSE Return(f_inst[argmin(f_aic)], FALSE)

FitRankFallsBack(dist_instances, dist_aic, unique) ==
    LET i_best == argmin(dist_aic)
        warned == dist_instances[i_best].is_unique /\ unique = None
        keep == [i \in 1..Len(dist_instances) |-> PyEq(dist_instances[i].is_unique, unique)]
        f_aic == Compress(dist_aic, keep)
        f_inst == Compress(dist_instances, keep)
    IN  IF unique = None THEN Return(dist_instances[i_best], warned)
        ELSE IF Len(f_inst) = 0 THEN Return(dist_instances[i_best], warned)
        ELSE Return(f_inst[argmin(f_aic)], warned)

FitRank(dist_instances, dist_aic, unique) ==
    LET i_best == argmin(dist_aic)
        warned == dist_instances[i_best].is_unique /\ unique = None
        keep == [i \in 1..Len(dist_instances) |-> PyEq(dist_instances[i].is_unique, unique)]
        f_aic == Compress(dist_aic, keep)
        f_inst == Compress(dist_instances, keep)
    IN  IF unique = None THEN Return(dist_instances[i_best], warned)
        ELSE IF Len(f_inst) = 0 THEN Raise("ValueError: No available distributions")
        ELSE Return(f_inst[argmin(f_aic)], warned)

\* BaseDistributionTree.fit(series, var_type, unique); outcomes[i] is what the
\* series makes of the i-th class of the list
fit(tr, outcomes, var_type, unique) ==
    IF ~hasattr(tr, var_type) THEN Raise("ValueError: Unknown variable type")
    ELSE LET dist_list == get_dist_list(tr, var_type) IN
         IF Len(dist_list) = 0 THEN Raise("ValueError: No available distributions")
         ELSE FitRank([i \in 1..Len(dist_list) |-> ClassFit(dist_list[i], outcomes[i])],
                      [i \in 1..Len(dist_list) |-> outcomes[i].aic],
                      unique)

UniqueArgs == {None, "True", "False"}

(***************************************************************************)
(* Specification SpecFit: automatic fits on a distribution tree.  The      *)
(* initial states are the calls fit(series, var_type, unique) about to be  *)
(* made, over every tree, variable type, uniqueness argument and every way *)
(* the series can fit and score the classes of the list.                   *)
(***************************************************************************)
InitFit ==
    /\ tree \in Trees
    /\ store = <<>>
    /\ log = <<>>
    /\ \E var_type \in VarTypes \cup {"unknown"}, unique \in UniqueArgs :
         \E outcomes \in [1..(IF hasattr(tree, var_type) THEN Len(tree[var_type]) ELSE 0)
                           -> FitOutcomes] :
           last = [op |-> "call tree.fit", var_type |-> var_type, unique |-> unique,
                   outcomes |-> outcomes, out |-> Raise("pending")]

\* the call tree.fit(series, var_type, unique) runs to its end
TreeFit ==
    /\ last.op = "call tree.fit"
    /\ last' = [last EXCEPT !.op = "tree.fit",
                            !.out = fit(tree, last.outcomes, last.var_type, last.unique)]
    /\ UNCHANGED <<tree, store, log>>

NextFit == TreeFit

SpecFit == InitFit /\ [][NextFit]_vars

\* the candidates of the last fit, as fitted, and their scores
LastList == get_dist_list(tree, last.var_type)

LastInstance(i) == ClassFit(LastList[i], last.outcomes[i])

LastAic(i) == last.outcomes[i].aic

\* the last operation is a finished automatic fit over a non-empty list
FitDone ==
    /\ last.op = "tree.fit"
    /\ hasattr(tree, last.var_type)
    /\ Len(LastList) > 0

\* candidate i may be returned under the uniqueness argument of the last fit
Eligible(i) ==
    \/ last.unique = None
    \/ last.unique = "True" /\ last.outcomes[i].is_unique
    \/ last.unique = "False" /\ ~last.outcomes[i].is_unique

\* C1: a fit called with unique=True never returns a distribution whose fitted
\* unique flag is false, and a fit called with unique=False never returns one
\* whose fitted unique flag is true
C1_UniquenessFilter ==
    (last.op = "tree.fit" /\ last.out.status = "ok") =>
        /\ last.unique = "True" => last.out.value.is_unique
        /\ last.unique = "False" => ~last.out.value.is_unique

\* a fit with unique=True returned a unique distribution although a non-unique
\* candidate scored strictly better
C1_Witness ==
    /\ FitDone
    /\ last.unique = "True"
    /\ last.out.status = "ok"
    /\ last.out.value.is_unique
    /\ \E i \in 1..Len(LastList) :
         ~last.outcomes[i].is_unique /\ LastAic(i) < LastAic(argmin([j \in 1..Len(LastList) |->
              IF last.outcomes[j].is_unique THEN LastAic(j) ELSE MaxAic + 1]))

\* C2: an automatic fit returns the eligible candidate with the lowest
\* information criterion, the first in catalog order among equal lowest scores,
\* whether all candidates are eligible (no uniqueness preference) or only the
\* ones that match the uniqueness constraint
C2_LowestScoreFirstWins ==
    (FitDone /\ \E i \in 1..Len(LastList) : Eligible(i)) =>
        \E k \in 1..Len(LastList) :
            /\ Eligible(k)
            /\ \A j \in 1..Len(LastList) : Eligible(j) => LastAic(k) <= LastAic(j)
            /\ \A j \in 1..(k - 1) : Eligible(j) => LastAic(j) > LastAic(k)
            /\ last.out.status = "ok"
            /\ last.out.value = LastInstance(k)

\* a constrained fit returned a candidate that is neither the first of its list
\* nor the overall best, and that ties with a later eligible candidate
C2_Witness ==
    /\ FitDone
    /\ last.unique = "False"
    /\ last.out.status = "ok"
    /\ \E k \in 2..Len(LastList) :
         /\ last.out.value = LastInstance(k)
         /\ \E j \in 1..(k - 1) : ~Eligible(j) /\ LastAic(j) < LastAic(k)
         /\ \E j \in (k + 1)..Len(LastList) : Eligible(j) /\ LastAic(j) = LastAic(k)

\* C10: with no explicit uniqueness preference and a unique best-ranked
\* candidate, a warning is emitted and the fit still returns the best candidate
\* of the unfiltered ranking; with an explicit preference no warning is emitted
C10_UniquenessWarning ==
    FitDone =>
        LET best == LastInstance(argmin([i \in 1..Len(LastList) |-> LastAic(i)])) IN
        /\ (last.unique = None /\ best.is_unique) =>
               /\ last.out.status = "ok"
               /\ last.out.warned
               /\ last.out.value = best
        /\ last.unique # None => ~last.out.warned
        /\ (last.unique = None /\ ~best.is_unique) => ~last.out.warned

\* an unconstrained fit warned and returned a unique best candidate
C10_Witness ==
    /\ FitDone
    /\ last.unique = None
    /\ last.out.warned
    /\ last.out.status = "ok"
    /\ last.out.value.is_unique
    /\ \E i \in 1..Len(LastList) : ~last.outcomes[i].is_unique

\* the errors of an automatic fit of the kind the specification calls
\* LookupError: no distribution for the variable type and uniqueness asked for
FitLookupErrors == {"ValueError: No available distributions"}

\* C11: an automatic fit with a uniqueness constraint (unique True or False)
\* for which no fitted candidate has a matching unique flag, the empty catalog
\* included, fails with a lookup error and returns no distribution
C11_NoMatchingUnique ==
    (/\ last.op = "tree.fit"
     /\ hasattr(tree, last.var_type)
     /\ last.unique # None
     /\ \A i \in 1..Len(LastList) : ~Eligible(i)) =>
        /\ last.out.status \in FitLookupErrors
        /\ last.out.value = NoDist
        /\ ~last.out.warned

\* a fit with unique=True over several candidates, none fitted unique, failed
C11_Witness ==
    /\ FitDone
    /\ Len(LastList) >= 2
    /\ last.unique = "True"
    /\ \A i \in 1..Len(LastList) : ~last.outcomes[i].is_unique
    /\ last.out.status \in FitLookupErrors
    /\ last.out.value = NoDist

\* a fit with unique=False over the empty catalog of a known type failed
C11_WitnessEmptyCatalog ==
    /\ last.op = "tree.fit"
    /\ hasattr(tree, last.var_type)
    /\ Len(LastList) = 0
    /\ last.unique = "False"
    /\ last.out.status \in FitLookupErrors

(***************************************************************************)
(* Metadata variables: src/metasynth/var.py (legacy) and                   *)
(* src/metasyn/var.py.  prop_missing and random numbers are fixed-point    *)
(* numbers in units of the tolerance 1e-8.                                 *)
(***************************************************************************)
\* 1.0 in units of the tolerance 1e-8 of the prop_missing check
Unit == 100000000

\* longest series fitted
MaxLen == 2

\* a series: its name, its storage kind, its length and its number of nulls
NoSeries == [name |-> None, storage |-> None, len |-> 0, n_missing |-> 0]

StorageKinds ==
    {"integer", "floating", "string", "categorical", "date", "datetime", "time", "boolean"}

SeriesOf(kinds) ==
    {s \in [name : {"col"}, storage : kinds, len : 0..MaxLen, n_missing : 0..MaxLen] :
        s.n_missing <= s.len}

\* pandas.api.types.infer_dtype(series)
infer_dtype(series) ==
    CASE series.storage = "integer" -> "integer"
      [] series.storage = "floating" -> "floating"
      [] series.storage = "string" -> "string"
      [] series.storage = "categorical" -> "categorical"
      [] series.storage = "date" -> "date"
      [] series.storage = "datetime" -> "datetime64"
      [] series.storage = "time" -> "time"
      [] OTHER -> "boolean"

\* str(series.dtype)
dtype_str(series) ==
    CASE series.storage = "integer" -> "int64"
      [] series.storage = "floating" -> "float64"
      [] series.storage = "datetime" -> "datetime64[ns]"
      [] series.storage = "categorical" -> "category"
      [] series.storage = "boolean" -> "bool"
      [] OTHER -> "object"

\* convert_dict of the legacy MetaVar.get_var_type
convert_dict ==
    [categorical |-> "categorical", string |-> "string", integer |-> "discrete",
     floating |-> "continuous", date |-> "date", datetime64 |-> "datetime",
     time |-> "time"]

\* legacy MetaVar.get_var_type(pandas_dtype): the variable type, or None when
\* the lookup raises ValueError("Unsupported pandas type")
get_var_type(pandas_dtype) ==
    IF pandas_dtype \in DOMAIN convert_dict THEN convert_dict[pandas_dtype] ELSE None

\* (len(series) - len(series.dropna())) / len(series), for len(series) > 0
PropMissingOf(series) == (series.n_missing * Unit) \div series.len

\* a metadata variable; origin names the call that set its distribution last
\* (the constructor, fit or from_dict)
NoVar ==
    [impl |-> None, name |-> None, var_type |-> None, dtype |-> None,
     description |-> None, prop_missing |-> 0, distribution |-> NoDist,
     series |-> NoSeries, origin |-> None]

\* outcome of an operation on variables: status "ok" and the variable made or
\* changed, or the error raised
VarRaise(err) == [status |-> err, var |-> NoVar]

VarReturn(v) == [status |-> "ok", var |-> v]

\* legacy MetaVar.__init__(var_type, series, name, distribution, prop_missing,
\* dtype); dtype None keeps the class attribute "unknown"
LegacyInit(var_type, series, name, distribution, prop_missing, dtype) ==
    IF series = NoSeries
    THEN VarReturn([impl |-> "metasynth", name |-> name, var_type |-> var_type,
                    dtype |-> IF dtype # None THEN dtype ELSE "unknown",
                    description |-> None, prop_missing |-> prop_missing,
                    distribution |-> distribution, series |-> series,
                    origin |-> "init"])
    ELSE IF series.len = 0 THEN VarRaise("ZeroDivisionError")
    ELSE VarReturn([impl |-> "metasynth", name |-> series.name, var_type |-> var_type,
                    dtype |-> dtype_str(series), description |-> None,
                    prop_missing |-> PropMissingOf(series),
                    distribution |-> distribution, series |-> series,
                    origin |-> "init"])

\* legacy MetaVar.detect(series)
detect(series) ==
    IF get_var_type(infer_dtype(series)) = None
    THEN VarRaise("ValueError: Unsupported pandas type")
    ELSE LegacyInit(get_var_type(infer_dtype(series)), series, None, NoDist, 0, None)

\* metasyn MetaVar.__init__(name, var_type, distribution, dtype, description,
\* prop_missing)
MetaVarInit(name, var_type, distribution, dtype, description, prop_missing) ==
    IF prop_missing < -1 \/ prop_missing > Unit + 1
    THEN VarRaise("ValueError: proportion missing outside range [0, 1]")
    ELSE VarReturn([impl |-> "metasyn", name |-> name, var_type |-> var_type,
                    dtype |-> dtype, description |-> description,
                    prop_missing |-> prop_missing, distribution |-> distribution,
                    series |-> NoSeries, origin |-> "init"])

(***************************************************************************)
(* Distribution classes: names, serialization (metasynth.distribution).    *)
(***************************************************************************)
\* the alias a class answers to besides its class name ("normal", "uniform",
\* "faker..." in the documentation of MetaVar.fit)
Alias(cls) ==
    CASE cls = "NormalDistribution" -> "normal"
      [] cls = "UniformDistribution" -> "uniform"
      [] cls = "FakerDistribution" -> "faker"
      [] OTHER -> cls

\* dist_class.is_named(name)
is_named(cls, name) == name = cls \/ name = Alias(cls)

\* the class attribute is_unique
ClassIsUnique(cls) == cls \in {"UniqueKeyDistribution", "UniqueRegexDistribution"}

\* the variable types a class can model: the lists of the tree that hold it
ClassVarTypes(tr, cls) ==
    {t \in DOMAIN tr : \E i \in 1..Len(tr[t]) : tr[t][i] = cls}

\* the dictionary {} 
EmptyDict == [name |-> None, parameters |-> 0]

\* distribution.to_dict()
DistToDict(dist) == [name |-> dist.cls, parameters |-> dist.param]

\* dist_class.from_dict(dist_dict)
DistFromDict(cls, dist_dict) ==
    [cls |-> cls, is_unique |-> ClassIsUnique(cls), param |-> dist_dict.parameters]

\* the first class of the list that is_named(name), or None
RECURSIVE FirstNamed(_, _)
FirstNamed(dist_list, name) ==
    IF Len(dist_list) = 0 THEN None
    ELSE IF is_named(Head(dist_list), name) THEN Head(dist_list)
    ELSE FirstNamed(Tail(dist_list), name)

\* the lists of the tree, one after the other in the order of all_var_types
RECURSIVE AllLists(_, _)
AllLists(tr, i) ==
    IF i > Len(AllVarTypes) THEN <<>>
    ELSE get_dist_list(tr, AllVarTypes[i]) \o AllLists(tr, i + 1)

\* BaseDistributionTree.find_distribution(dist_name): the class found, or None
\* when it raises ValueError("Cannot find distribution with name")
find_distribution(tr, dist_name) == FirstNamed(AllLists(tr, 1), dist_name)

\* a distribution reference: a name (form "str"), a class (form "class"), an
\* instance (form "instance"), nothing (form "none") or anything else
NoRef == [form |-> "none", ref |-> None, unique |-> None, inst |-> NoDist]

\* what the series makes of a class: the instance fitted to it
SeriesFit(cls, param) ==
    [cls |-> cls, is_unique |-> ClassIsUnique(cls), param |-> param]

\* fit_distribution fitting the class of a given instance to the series anew
FitDistributionRefitsInstance(tr, dist, param) ==
    CASE dist.form = "str" ->
            IF find_distribution(tr, dist.ref) = None
            THEN Raise("ValueError: Cannot find distribution with name")
            ELSE Return(SeriesFit(find_distribution(tr, dist.ref), param), FALSE)
      [] dist.form = "class" -> Return(SeriesFit(dist.ref, param), FALSE)
      [] dist.form = "instance" -> Return(SeriesFit(dist.inst.cls, param), FALSE)
      [] OTHER -> Raise("TypeError: not a BaseDistribution")

\* fit_distribution without its check that an instance was made
FitDistributionReturnsNone(tr, dist, param) ==
    CASE dist.form = "str" ->
            IF find_distribution(tr, dist.ref) = None
            THEN Raise("ValueError: Cannot find distribution with name")
            ELSE Return(SeriesFit(find_distribution(tr, dist.ref), param), FALSE)
      [] dist.form = "class" -> Return(SeriesFit(dist.ref, param), FALSE)
      [] dist.form = "instance" -> Return(dist.inst, FALSE)
      [] OTHER -> Return(NoDist, FALSE)

\* BaseDistributionTree.fit_distribution(dist, series); the series fits every
\* class with the parameter param
fit_distribution(tr, dist, param) ==
    CASE dist.form = "str" ->
            IF find_distribution(tr, dist.ref) = None
            THEN Raise("ValueError: Cannot find distribution with name")
            ELSE Return(SeriesFit(find_distribution(tr, dist.ref), param), FALSE)
      [] dist.form = "class" -> Return(SeriesFit(dist.ref, param), FALSE)
      [] dist.form = "instance" -> Return(dist.inst, FALSE)
      [] OTHER -> Raise("TypeError: not a BaseDistribution")

\* from_dict looking the stored name up in every list of the tree
FromDictAnyType(tr, var_dict) ==
    IF var_dict.distribution = EmptyDict THEN Raise("KeyError: name")
    ELSE IF find_distribution(tr, var_dict.distribution.name) = None
    THEN Raise("ValueError: Cannot find distribution with name")
    ELSE Return(DistFromDict(find_distribution(tr, var_dict.distribution.name),
                             var_dict.distribution), FALSE)

\* BaseDistributionTree.from_dict(var_dict)
from_dict(tr, var_dict) ==
    IF ~hasattr(tr, var_dict.type) THEN Raise("ValueError: Unknown variable type")
    ELSE IF Len(get_dist_list(tr, var_dict.type)) = 0
    THEN Raise("ValueError: Cannot find distribution with name")
    ELSE IF var_dict.distribution = EmptyDict THEN Raise("KeyError: name")
    ELSE IF FirstNamed(get_dist_list(tr, var_dict.type), var_dict.distribution.name) = None
    THEN Raise("ValueError: Cannot find distribution with name")
    ELSE Return(DistFromDict(FirstNamed(get_dist_list(tr, var_dict.type),
                                        var_dict.distribution.name),
                             var_dict.distribution), FALSE)

(***************************************************************************)
(* Operations of the metadata variable.                                    *)
(***************************************************************************)
\* the outcome r of a call, noting the call as the origin of the distribution
Origin(r, call) ==
    IF r.status = "ok" THEN VarReturn([r.var EXCEPT !.origin = call]) ELSE r

\* MetaVar.to_dict(), both versions; description None is the absent key
to_dict(v) ==
    [name |-> v.name, type |-> v.var_type, dtype |-> v.dtype,
     prop_missing |-> v.prop_missing,
     distribution |-> IF v.distribution = NoDist THEN EmptyDict
                      ELSE DistToDict(v.distribution),
     description |-> v.description]

\* the scores of an automatic fit in which the class at position best of the
\* list scores lowest, every class fitted with the parameter param
OutcomesOf(dist_list, best, param) ==
    [i \in 1..Len(dist_list) |->
        [is_unique |-> ClassIsUnique(dist_list[i]),
         aic |-> IF i = best THEN 0 ELSE MaxAic,
         param |-> param]]

\* legacy MetaVar.fit(dist, distribution_tree, unique) on the variable v: the
\* distribution it assigns to v, or the error raised; the automatic fit ranks
\* the list of the tree for v's type
\* fit assigning no distribution where the reference is of no known form
LegacyFitAssignsNone(v, dist, tr, unique, best, param) ==
    IF v.series = NoSeries THEN Raise("ValueError: Cannot fit without the original data")
    ELSE IF dist.form = "none"
    THEN fit(tr, OutcomesOf(IF hasattr(tr, v.var_type) THEN tr[v.var_type] ELSE <<>>,
                            best, param), v.var_type, unique)
    ELSE IF dist.form \in {"str", "class", "instance"} THEN fit_distribution(tr, dist, param)
    ELSE Return(NoDist, FALSE)

LegacyFit(v, dist, tr, unique, best, param) ==
    IF v.series = NoSeries THEN Raise("ValueError: Cannot fit without the original data")
    ELSE IF dist.form = "none"
    THEN fit(tr, OutcomesOf(IF hasattr(tr, v.var_type) THEN tr[v.var_type] ELSE <<>>,
                            best, param), v.var_type, unique)
    ELSE fit_distribution(tr, dist, param)

\* legacy MetaVar.from_dict(var_dict); the tree stands for the dictionary of
\* all distributions by variable type
LegacyFromDict(tr, var_dict) ==
    IF ~hasattr(tr, var_dict.type) THEN VarRaise("ValueError: Cannot find variable type")
    ELSE IF Len(tr[var_dict.type]) = 0 THEN VarRaise("ValueError: Cannot find meta class")
    ELSE IF var_dict.distribution = EmptyDict THEN VarRaise("KeyError: name")
    ELSE IF FirstNamed(tr[var_dict.type], var_dict.distribution.name) = None
    THEN VarRaise("ValueError: Cannot find meta class")
    ELSE Origin(LegacyInit(var_dict.type, NoSeries, var_dict.name,
                           DistFromDict(FirstNamed(tr[var_dict.type],
                                                   var_dict.distribution.name),
                                        var_dict.distribution),
                           var_dict.prop_missing, var_dict.dtype), "from_dict")

\* metasyn MetaVar.from_dict(var_dict, distribution_providers)
MetaVarFromDict(tr, var_dict) ==
    IF from_dict(tr, var_dict).status # "ok" THEN VarRaise(from_dict(tr, var_dict).status)
    ELSE Origin(MetaVarInit(var_dict.name, var_dict.type, from_dict(tr, var_dict).value,
                            var_dict.dtype, var_dict.description, var_dict.prop_missing),
                "from_dict")

\* the Python type name polars gives the dtype of the series
polars_dtype(series) ==
    CASE series.storage = "integer" -> "int"
      [] series.storage = "floating" -> "float"
      [] series.storage = "string" -> "str"
      [] series.storage = "categorical" -> "categorical"
      [] series.storage = "date" -> "date"
      [] series.storage = "datetime" -> "datetime"
      [] series.storage = "time" -> "time"
      [] OTHER -> "bool"

\* convert_dict of metasyn MetaVar.get_var_type
polars_convert_dict ==
    [int |-> "discrete", float |-> "continuous", date |-> "date",
     datetime |-> "datetime", time |-> "time", str |-> "string",
     categorical |-> "categorical"]

\* get_var_type taking a boolean column for an integer one
PolarsVarTypeBoolAsInt(series) ==
    IF polars_dtype(series) = "bool" THEN "discrete"
    ELSE IF polars_dtype(series) \in DOMAIN polars_convert_dict
    THEN polars_convert_dict[polars_dtype(series)] ELSE None

\* metasyn MetaVar.get_var_type(series): the variable type, or None when it
\* raises ValueError("Unsupported polars type")
polars_get_var_type(series) ==
    IF polars_dtype(series) \in DOMAIN polars_convert_dict
    THEN polars_convert_dict[polars_dtype(series)] ELSE None

\* the normalized dist_spec: the name it implements and its unique constraint,
\* and the parameters when it came from an instance
NoSpec == [implements |-> None, unique |-> None, fitted |-> FALSE, parameters |-> 0]

\* a dist_spec that is no mapping after the first lines of MetaVar.fit
BadSpec == [implements |-> "?", unique |-> None, fitted |-> FALSE, parameters |-> 0]

\* the first lines of fit leaving a name as it is
NormalizeSpecNoStr(dist) ==
    CASE dist.form = "instance" ->
            [implements |-> dist.inst.cls,
             unique |-> IF dist.inst.is_unique THEN "True" ELSE "False",
             fitted |-> TRUE, parameters |-> dist.inst.param]
      [] dist.form = "class" ->
            [implements |-> dist.ref,
             unique |-> IF ClassIsUnique(dist.ref) THEN "True" ELSE "False",
             fitted |-> FALSE, parameters |-> 0]
      [] dist.form = "none" -> NoSpec
      [] dist.form = "mapping" ->
            [implements |-> dist.ref, unique |-> dist.unique, fitted |-> FALSE,
             parameters |-> 0]
      [] OTHER -> BadSpec

\* the first lines of metasyn MetaVar.fit: an instance, a class, a name and None
\* are made a mapping, anything else is handed on as it is
NormalizeSpec(dist) ==
    CASE dist.form = "instance" ->
            [implements |-> dist.inst.cls,
             unique |-> IF dist.inst.is_unique THEN "True" ELSE "False",
             fitted |-> TRUE, parameters |-> dist.inst.param]
      [] dist.form = "class" ->
            [implements |-> dist.ref,
             unique |-> IF ClassIsUnique(dist.ref) THEN "True" ELSE "False",
             fitted |-> FALSE, parameters |-> 0]
      [] dist.form = "str" ->
            [implements |-> dist.ref, unique |-> None, fitted |-> FALSE, parameters |-> 0]
      [] dist.form = "none" -> NoSpec
      [] dist.form = "mapping" ->
            [implements |-> dist.ref, unique |-> dist.unique, fitted |-> FALSE,
             parameters |-> 0]
      [] OTHER -> BadSpec

\* the classes of the list whose unique flag the constraint allows
RECURSIVE UniqueOnly(_, _)
UniqueOnly(dist_list, unique) ==
    IF Len(dist_list) = 0 THEN <<>>
    ELSE (IF unique = None \/ PyEq(ClassIsUnique(Head(dist_list)), unique)
          THEN <<Head(dist_list)>> ELSE <<>>) \o UniqueOnly(Tail(dist_list), unique)

\* DistributionProviderList.fit(series, var_type, dist_spec, privacy) under the
\* default privacy: with a spec, the class of the variable type that the spec
\* names, fitted (or built from the parameters of the spec); without one, the
\* automatic selection among the classes of the variable type
ProviderListFit(tr, var_type, spec, best, param) ==
    IF spec = BadSpec THEN Raise("TypeError: not a BaseDistribution")
    ELSE IF spec = NoSpec THEN fit(tr, OutcomesOf(tr[var_type], best, param), var_type, None)
    ELSE IF FirstNamed(UniqueOnly(tr[var_type], spec.unique), spec.implements) = None
    THEN Raise("ValueError: Cannot find distribution with name")
    ELSE Return(SeriesFit(FirstNamed(UniqueOnly(tr[var_type], spec.unique), spec.implements),
                          IF spec.fitted THEN spec.parameters ELSE param), FALSE)

\* a prop_missing argument: given with a value, or left out
NoProp == [given |-> FALSE, value |-> 0]

\* fit computing prop_missing whether or not the caller gave one
MetaVarFitIgnoresProp(tr, series, dist, best, param, prop_missing, description) ==
    IF polars_get_var_type(series) = None THEN VarRaise("ValueError: Unsupported polars type")
    ELSE LET var_type == polars_get_var_type(series)
             r == ProviderListFit(tr, var_type, NormalizeSpec(dist), best, param)
         IN  IF r.status # "ok" THEN VarRaise(r.status)
             ELSE IF series.len = 0 THEN VarRaise("ZeroDivisionError")
             ELSE Origin(MetaVarInit(series.name, var_type, r.value, dtype_str(series),
                                     description, PropMissingOf(series)), "fit")

\* metasyn MetaVar.fit(series, dist_spec, provider_list, privacy, prop_missing,
\* description): the new variable, or the error raised
MetaVarFit(tr, series, dist, best, param, prop_missing, description) ==
    IF polars_get_var_type(series) = None THEN VarRaise("ValueError: Unsupported polars type")
    ELSE LET var_type == polars_get_var_type(series)
             r == ProviderListFit(tr, var_type, NormalizeSpec(dist), best, param)
         IN  IF r.status # "ok" THEN VarRaise(r.status)
             ELSE IF ~prop_missing.given /\ series.len = 0 THEN VarRaise("ZeroDivisionError")
             ELSE Origin(MetaVarInit(series.name, var_type, r.value, dtype_str(series),
                                     description,
                                     IF prop_missing.given THEN prop_missing.value
                                     ELSE PropMissingOf(series)), "fit")

(***************************************************************************)
(* Specification SpecFind: looking a distribution up by name for a column  *)
(* of a variable type, with the tree's find_distribution(dist_name) and    *)
(* with the provider list's find_distribution(name, var_type, unique).     *)
(***************************************************************************)
\* DistributionProviderList.find_distribution(dist_name, var_type, privacy,
\* unique) under the default privacy: the class found, or None when it raises
\* ValueError("Cannot find distribution with name")
ProviderFindDistribution(tr, dist_name, var_type, unique) ==
    IF ~hasattr(tr, var_type) THEN None
    ELSE FirstNamed(UniqueOnly(tr[var_type], unique), dist_name)

\* the errors of the kind the specification calls LookupError: no distribution
\* (or no catalog) for the name and type asked for
LookupErrors ==
    {"ValueError: Cannot find distribution with name", "ValueError: Cannot find meta class",
     "ValueError: Cannot find variable type", "ValueError: Unknown variable type",
     "KeyError: name"}

\* names looked up: aliases, class names and a name no class answers to
FindNames ==
    {"normal", "faker", "uniform", "UniformDateDistribution", "UniqueRegexDistribution",
     "nosuch"}

InitFind ==
    /\ tree \in Trees
    /\ store = <<>>
    /\ log = <<>>
    /\ \E dist_name \in FindNames, var_type \in VarTypes \cup {"unknown"},
          unique \in UniqueArgs :
         last = [op |-> "call find_distribution", dist_name |-> dist_name,
                 var_type |-> var_type, unique |-> unique, found |-> None,
                 status |-> "pending"]

\* the outcome of a lookup: the class found, or the error raised
Found(op, cls) ==
    /\ last' = [last EXCEPT !.op = op, !.found = cls,
                            !.status = IF cls = None
                                       THEN "ValueError: Cannot find distribution with name"
                                       ELSE "ok"]
    /\ UNCHANGED <<tree, store, log>>

\* tree.find_distribution(dist_name), called to fit a column of last.var_type
TreeFind ==
    /\ last.op = "call find_distribution"
    /\ last.unique = None
    /\ Found("tree.find_distribution", find_distribution(tree, last.dist_name))

\* provider_list.find_distribution(dist_name, var_type, privacy, unique)
ProviderFind ==
    /\ last.op = "call find_distribution"
    /\ Found("provider_list.find_distribution",
             ProviderFindDistribution(tree, last.dist_name, last.var_type, last.unique))

NextFind == TreeFind \/ ProviderFind

SpecFind == InitFind /\ [][NextFind]_vars

\* the classes of the catalog of the requested variable type that match the
\* requested name, in catalog order
RECURSIVE NamedOnly(_, _)
NamedOnly(dist_list, name) ==
    IF Len(dist_list) = 0 THEN <<>>
    ELSE (IF is_named(Head(dist_list), name) THEN <<Head(dist_list)>> ELSE <<>>)
         \o NamedOnly(Tail(dist_list), name)

FindCandidates ==
    IF hasattr(tree, last.var_type) THEN NamedOnly(tree[last.var_type], last.dist_name)
    ELSE <<>>

FindDone == last.op \in {"tree.find_distribution", "provider_list.find_distribution"}

\* C12: find_distribution returns only a class that the catalog of the
\* requested variable type lists and that matches the name, the first such
\* class in catalog order when no uniqueness constraint is given; when the
\* name matches no class of that catalog (it may match one of another
\* variable type) it fails with a lookup error and returns no class
C12_FindRestrictedToVarType ==
    FindDone =>
        /\ last.found # None =>
              /\ \E k \in 1..Len(FindCandidates) : FindCandidates[k] = last.found
              /\ last.unique = None => last.found = FindCandidates[1]
        /\ Len(FindCandidates) = 0 =>
              /\ last.found = None
              /\ last.status \in LookupErrors

(***************************************************************************)
(* The inputs of the variable operations.                                  *)
(***************************************************************************)
\* prop_missing values a caller or a stored dictionary gives, in units of 1e-8:
\* -2e-8, -1e-8, 0.5, 1 + 1e-8, 1 + 2e-8
PropValues == {-2, -1, Unit \div 2, Unit + 1, Unit + 2}

PropArgs == {NoProp} \cup {[given |-> TRUE, value |-> x] : x \in PropValues}

\* names a caller or a stored dictionary gives for a distribution
DistNames == {"normal", "faker", "UniformDateDistribution", "PoissonDistribution", "nosuch"}

DistRefs ==
    {NoRef, [NoRef EXCEPT !.form = "other"]}
    \cup {[NoRef EXCEPT !.form = "str", !.ref = n] : n \in DistNames}
    \cup {[NoRef EXCEPT !.form = "class", !.ref = c] :
            c \in {"PoissonDistribution", "UniqueRegexDistribution"}}
    \cup {[NoRef EXCEPT !.form = "instance", !.inst = SeriesFit(c, 1)] :
            c \in {"NormalDistribution", "UniqueKeyDistribution"}}
    \cup {[NoRef EXCEPT !.form = "mapping", !.ref = "faker", !.unique = u] : u \in UniqueArgs}

\* stored variable dictionaries, well-formed or corrupted
VarDicts ==
    [name : {"col"}, type : VarTypes \cup {"unknown"}, dtype : {"int64"},
     prop_missing : PropValues,
     distribution : {EmptyDict} \cup [name : DistNames, parameters : ParamValues],
     description : {None, "text"}]

\* the variable types a caller names when constructing a variable directly
DirectVarTypes == {"discrete", "string", "unknown"}

DirectDists == {NoDist, SeriesFit("PoissonDistribution", 0)}

(***************************************************************************)
(* The steps of a program that creates, fits, stores and loads variables.  *)
(* store holds the variables alive, last the outcome of the last call.     *)
(***************************************************************************)
NoDict ==
    [name |-> None, type |-> None, dtype |-> None, prop_missing |-> 0,
     distribution |-> EmptyDict, description |-> None]

\* the arguments of a call: the stored dictionary, the series, the distribution
\* reference and the prop_missing it was given
NoArgs == [dict |-> NoDict, series |-> NoSeries, ref |-> NoRef, prop |-> NoProp]

\* the last call: the operation, its arguments, the slot of the variable it
\* made or was called on, and its outcome
NoCall ==
    [op |-> "none", slot |-> 0, status |-> "none", dict |-> NoDict, series |-> NoSeries,
     ref |-> NoRef, prop |-> NoProp, var |-> NoVar]

Called(op, slot, args, status, var) ==
    [op |-> op, slot |-> slot, status |-> status, dict |-> args.dict,
     series |-> args.series, ref |-> args.ref, prop |-> args.prop, var |-> var]

\* a call that makes a variable: the variable joins the store unless it raised
CreateWith(op, args, r) ==
    /\ last' = Called(op, IF r.status = "ok" THEN Len(store) + 1 ELSE 0, args,
                      r.status, r.var)
    /\ store' = IF r.status = "ok" THEN Append(store, r.var) ELSE store
    /\ UNCHANGED <<tree, log>>

Create(op, dict, r) == CreateWith(op, [NoArgs EXCEPT !.dict = dict], r)

\* the choices that matter to an automatic fit only: one choice when the
\* distribution is given
Automatic(dist, choices) ==
    IF dist.form = "none" THEN choices ELSE {CHOOSE c \in choices : TRUE}

\* the length of the list of the variable type, 1 where there is no class
ListLen(tr, var_type) ==
    IF hasattr(tr, var_type) /\ Len(tr[var_type]) > 0 THEN Len(tr[var_type]) ELSE 1

\* metasynth: MetaVar.detect(series)
Detect(cap, series_inputs) ==
    /\ Len(store) < cap
    /\ \E series \in series_inputs :
         CreateWith("metasynth.detect", [NoArgs EXCEPT !.series = series], detect(series))

\* metasynth: MetaVar(var_type, name=, distribution=, prop_missing=, dtype=)
LegacyConstruct(cap, props) ==
    /\ Len(store) < cap
    /\ \E var_type \in DirectVarTypes, distribution \in DirectDists, prop_missing \in props :
         Create("metasynth.MetaVar", NoDict,
                LegacyInit(var_type, NoSeries, "col", distribution,
                           IF prop_missing.given THEN prop_missing.value ELSE 0, None))

\* metasynth: var.fit(dist, tree, unique) sets the distribution of var
LegacyFitStep(refs, params) ==
    \E i \in 1..Len(store), dist \in refs, param \in params :
      \E unique \in Automatic(dist, UniqueArgs),
         best \in Automatic(dist, 1..ListLen(tree, store[i].var_type)) :
        LET r == LegacyFit(store[i], dist, tree, unique, best, param) IN
        /\ store[i].impl = "metasynth"
        /\ store' = IF r.status = "ok"
                    THEN [store EXCEPT ![i].distribution = r.value, ![i].origin = "fit"]
                    ELSE store
        /\ last' = Called("metasynth.fit", i,
                          [NoArgs EXCEPT !.series = store[i].series, !.ref = dist],
                          r.status, IF r.status = "ok" THEN store'[i] ELSE NoVar)
        /\ UNCHANGED <<tree, log>>

\* metasynth: MetaVar.from_dict(var_dict)
LegacyLoad(cap, dicts) ==
    /\ Len(store) < cap
    /\ \E var_dict \in dicts : Create("metasynth.from_dict", var_dict,
                                      LegacyFromDict(tree, var_dict))

\* metasyn: MetaVar(name, var_type, distribution, dtype, description, prop_missing)
Construct(cap, props) ==
    /\ Len(store) < cap
    /\ \E var_type \in DirectVarTypes, distribution \in DirectDists, prop_missing \in props :
         Create("metasyn.MetaVar", NoDict,
                MetaVarInit("col", var_type, distribution, "unknown", None,
                            IF prop_missing.given THEN prop_missing.value ELSE Unit))

\* metasyn: MetaVar.fit(series, dist_spec, providers, privacy, prop_missing)
FitStep(cap, series_inputs, refs, props, params, descriptions) ==
    /\ Len(store) < cap
    /\ \E series \in series_inputs, dist \in refs, prop_missing \in props,
          param \in params, description \in descriptions :
         \E best \in Automatic(dist, 1..ListLen(tree, polars_get_var_type(series))) :
           CreateWith("metasyn.fit",
                      [NoArgs EXCEPT !.series = series, !.ref = dist, !.prop = prop_missing],
                      MetaVarFit(tree, series, dist, best, param, prop_missing, description))

\* metasyn: MetaVar.from_dict(var_dict)
Load(cap, dicts) ==
    /\ Len(store) < cap
    /\ \E var_dict \in dicts : Create("metasyn.from_dict", var_dict,
                                      MetaVarFromDict(tree, var_dict))

\* from_dict(to_dict(var)) of a variable alive; the copy is kept in last
RoundTrip ==
    \E i \in 1..Len(store) :
        LET r == IF store[i].impl = "metasynth" THEN LegacyFromDict(tree, to_dict(store[i]))
                 ELSE MetaVarFromDict(tree, to_dict(store[i]))
        IN  /\ last' = Called("round trip", i, [NoArgs EXCEPT !.dict = to_dict(store[i])],
                              r.status, r.var)
            /\ UNCHANGED <<tree, store, log>>

(***************************************************************************)
(* Specification SpecVar: one creating call, over all its inputs, then the *)
(* fits and round trips of the variable it made.                           *)
(***************************************************************************)
InitVar ==
    /\ tree \in Trees
    /\ store = <<>>
    /\ last = NoCall
    /\ log = <<>>

\* no call was made yet
Fresh == last = NoCall

NextVar ==
    \/ Fresh /\ Detect(1, SeriesOf(StorageKinds))
    \/ Fresh /\ LegacyConstruct(1, PropArgs)
    \/ LegacyFitStep(DistRefs, ParamValues)
    \/ Fresh /\ LegacyLoad(1, VarDicts)
    \/ Fresh /\ Construct(1, PropArgs)
    \/ Fresh /\ FitStep(1, SeriesOf(StorageKinds), DistRefs, PropArgs, ParamValues,
                        {None, "text"})
    \/ Fresh /\ Load(1, VarDicts)
    \/ RoundTrip

SpecVar == InitVar /\ [][NextVar]_vars

\* the variables alive
Alive == {store[i] : i \in 1..Len(store)}

\* the variable is in the state FIT: it holds a distribution that fit or
\* from_dict gave it
IsFit(v) == v.distribution # NoDist /\ v.origin \in {"fit", "from_dict"}

\* C3: every variable that exists has 0 <= prop_missing <= 1 within the
\* tolerance 1e-8, and a creation with prop_missing outside that range fails
\* and yields no variable
C3_PropMissingInRange ==
    \A v \in Alive : v.prop_missing >= -1 /\ v.prop_missing <= Unit + 1

\* C4: for every variable v in the state FIT, from_dict(to_dict(v)) succeeds
\* and yields a variable with the same name, var_type, dtype, prop_missing and
\* description and a distribution of the same class with the same parameters
C4_RoundTrip ==
    (last.op = "round trip" /\ IsFit(store[last.slot])) =>
        /\ last.status = "ok"
        /\ last.var.name = store[last.slot].name
        /\ last.var.var_type = store[last.slot].var_type
        /\ last.var.dtype = store[last.slot].dtype
        /\ last.var.prop_missing = store[last.slot].prop_missing
        /\ last.var.description = store[last.slot].description
        /\ last.var.distribution.cls = store[last.slot].distribution.cls
        /\ last.var.distribution.param = store[last.slot].distribution.param

FromDictCalls == {"metasynth.from_dict", "metasyn.from_dict", "round trip"}

\* the classes of the catalog of the stored type that match the stored name
Matching(var_dict) ==
    IF hasattr(tree, var_dict.type)
    THEN {c \in {tree[var_dict.type][k] : k \in 1..Len(tree[var_dict.type])} :
            var_dict.distribution # EmptyDict /\ is_named(c, var_dict.distribution.name)}
    ELSE {}

\* C5: from_dict returns only a distribution built by a class that the catalog
\* of the stored variable type lists and that matches the stored name; when no
\* class of that catalog matches, it fails with a lookup error and returns
\* nothing
C5_NoSubstitution ==
    last.op \in FromDictCalls =>
        /\ last.status = "ok" =>
              /\ last.var.distribution.cls \in Matching(last.dict)
              /\ last.var.distribution.param = last.dict.distribution.parameters
              /\ last.var.var_type = last.dict.type
        /\ Matching(last.dict) = {} =>
              /\ last.status \in LookupErrors
              /\ last.var = NoVar
              /\ last.op # "round trip" => store = <<>>

\* a stored dictionary naming, by its alias, a class that other catalogs of the
\* tree list was loaded with that class of the stored type's catalog
C5_Witness ==
    /\ last.op = "metasyn.from_dict"
    /\ last.status = "ok"
    /\ last.dict.distribution.name = "faker"
    /\ last.var.distribution.cls = "FakerDistribution"
    /\ Len(store) = 1

\* a stored dictionary whose name only another type's catalog lists failed
C5_WitnessLookupError ==
    /\ last.op = "metasynth.from_dict"
    /\ last.dict.distribution.name = "normal"
    /\ last.dict.type = "string"
    /\ last.status \in LookupErrors

\* C6: whenever a variable's distribution is set, the variable types that
\* distribution can model include the variable's own var_type
C6_TypeCompatible ==
    \A v \in Alive :
        v.distribution # NoDist => v.var_type \in ClassVarTypes(tree, v.distribution.cls)

\* the variable type of each supported storage type
StorageVarType ==
    [integer |-> "discrete", floating |-> "continuous", string |-> "string",
     categorical |-> "categorical", date |-> "date", datetime |-> "datetime",
     time |-> "time"]

UnsupportedErrors ==
    {"ValueError: Unsupported pandas type", "ValueError: Unsupported polars type"}

\* C13: a variable made from a series (detect, fit) has the variable type of
\* the series' storage type, whatever the other arguments, and keeps it when
\* fitted again; a series of any other storage type makes the call fail with
\* an "Unsupported type" error and no variable is made; a variable read back
\* from its dictionary has the variable type it had before
C13_VarTypeInference ==
    /\ (last.op \in {"metasynth.detect", "metasyn.fit", "metasynth.fit"}
        /\ last.series # NoSeries) =>
          /\ (last.series.storage \in DOMAIN StorageVarType /\ last.status = "ok") =>
                 last.var.var_type = StorageVarType[last.series.storage]
          /\ last.series.storage \notin DOMAIN StorageVarType =>
                 /\ last.status \in UnsupportedErrors
                 /\ last.var = NoVar
                 /\ store = <<>>
    /\ \A v \in Alive :
          v.series # NoSeries =>
              /\ v.series.storage \in DOMAIN StorageVarType
              /\ v.var_type = StorageVarType[v.series.storage]
    /\ (last.op = "round trip" /\ last.status = "ok") =>
          last.var.var_type = store[last.slot].var_type

\* a variable fitted to a datetime column, with a distribution named by the
\* caller, was read back from its dictionary
C13_Witness ==
    /\ last.op = "round trip"
    /\ last.status = "ok"
    /\ store[last.slot].origin = "fit"
    /\ store[last.slot].var_type = "datetime"
    /\ last.var.var_type = "datetime"

\* the fit of a boolean column failed
C13_WitnessUnsupported ==
    /\ last.op = "metasyn.fit"
    /\ last.series.storage = "boolean"
    /\ last.series.len > 0
    /\ last.ref.form = "none"
    /\ last.status \in UnsupportedErrors

C15_WitnessNoVariable ==
    /\ last.op = "metasyn.fit"
    /\ last.ref.form = "other"
    /\ last.series.len > 0
    /\ last.status = "TypeError: not a BaseDistribution"
    /\ store = <<>>

C17_WitnessGiven ==
    /\ last.op = "metasyn.fit"
    /\ last.status = "ok"
    /\ last.prop.given
    /\ last.series.n_missing = 1
    /\ last.var.prop_missing = Unit + 1

\* a series of length 0 with a supported storage type was fitted
C17_WitnessEmpty ==
    /\ last.op = "metasyn.fit"
    /\ last.series.len = 0
    /\ ~last.prop.given
    /\ last.status = "ZeroDivisionError"

\* the part of C19 about fit: on a variable with no stored series fit() raises
\* ValueError and the variable is as it was
C19_FitWithoutSeriesFails ==
    (last.op = "metasynth.fit" /\ store[last.slot].series = NoSeries) =>
        /\ last.status = "ValueError: Cannot fit without the original data"
        /\ last.var = NoVar
        /\ store[last.slot].origin # "fit"

(***************************************************************************)
(* Specification SpecForms: one distribution class D given to the explicit *)
(* fit of one column in each of its forms (name, class, instance,          *)
(* mapping), by metasyn's MetaVar.fit and by the tree's fit_distribution.  *)
(* log collects, per form, what was handed to the lookup and what came out.*)
(***************************************************************************)
Forms == {"str", "class", "instance", "mapping"}

\* the classes a caller may name: those of the builtin tree
RECURSIVE SeqRange(_)
SeqRange(q) == IF Len(q) = 0 THEN {} ELSE {Head(q)} \cup SeqRange(Tail(q))

Classes == SeqRange(AllLists(BuiltinDistributionTree, 1))

\* the class D in the form asked for; the instance was fitted elsewhere with
\* the parameter 1, the mapping states D's own unique flag
FormRef(form, cls) ==
    CASE form = "str" -> [NoRef EXCEPT !.form = "str", !.ref = cls]
      [] form = "class" -> [NoRef EXCEPT !.form = "class", !.ref = cls]
      [] form = "instance" -> [NoRef EXCEPT !.form = "instance", !.inst = SeriesFit(cls, 1)]
      [] OTHER -> [NoRef EXCEPT !.form = "mapping", !.ref = cls,
                                !.unique = IF ClassIsUnique(cls) THEN "True" ELSE "False"]

FormSeries ==
    {s \in SeriesOf(StorageKinds \ {"boolean"}) : s.len = 1 /\ s.n_missing = 0}

InitForms ==
    /\ tree \in Trees
    /\ store = <<>>
    /\ log = {}
    /\ \E cls \in Classes, series \in FormSeries :
         last = [op |-> "explicit fits", cls |-> cls, series |-> series]

\* MetaVar.fit(series, dist_spec) of metasyn with D in one form
FitByForm ==
    \E form \in Forms :
        LET dist == FormRef(form, last.cls)
            spec == NormalizeSpec(dist)
            r == MetaVarFit(tree, last.series, dist, 1, 0, NoProp, None)
        IN  /\ \A e \in log : ~(e.impl = "metasyn" /\ e.form = form)
            /\ log' = log \cup {[impl |-> "metasyn", form |-> form,
                                  implements |-> spec.implements, unique |-> spec.unique,
                                  status |-> r.status, cls |-> r.var.distribution.cls]}
            /\ UNCHANGED <<tree, store, last>>

\* tree.fit_distribution(dist, series) of metasynth with D in one form
TreeFitByForm ==
    \E form \in Forms :
        LET dist == FormRef(form, last.cls)
            r == fit_distribution(tree, dist, 0)
        IN  /\ \A e \in log : ~(e.impl = "metasynth" /\ e.form = form)
            /\ log' = log \cup {[impl |-> "metasynth", form |-> form,
                                  implements |-> None, unique |-> None,
                                  status |-> r.status, cls |-> r.value.cls]}
            /\ UNCHANGED <<tree, store, last>>

NextForms == FitByForm \/ TreeFitByForm

SpecForms == InitForms /\ [][NextForms]_vars

\* the fits made so far by metasyn's MetaVar.fit
ProviderFits == {e \in log : e.impl = "metasyn"}

\* the fits made so far by the tree's fit_distribution
TreeFits == {e \in log : e.impl = "metasynth"}

ExplicitRefs ==
    {[NoRef EXCEPT !.form = "str", !.ref = n] : n \in Classes \cup {"normal", "nosuch"}}
    \cup {[NoRef EXCEPT !.form = "class", !.ref = c] : c \in Classes}
    \cup {[NoRef EXCEPT !.form = "instance", !.inst = SeriesFit(c, 1)] : c \in Classes}

InitExplicit ==
    /\ tree \in Trees
    /\ log = <<>>
    /\ \E series \in FormSeries :
         /\ store = <<detect(series).var>>
         /\ last = [op |-> "metasynth.detect", ref |-> NoRef, param |-> 0, best |-> 1,
                    unique |-> None, out |-> Raise("none")]

\* tree.fit_distribution(dist, series): the instance is handed to the caller
TreeFitDistribution ==
    /\ last.op = "metasynth.detect"
    /\ \E dist \in ExplicitRefs, param \in ParamValues :
         last' = [op |-> "tree.fit_distribution", ref |-> dist, param |-> param, best |-> 1,
                  unique |-> None, out |-> fit_distribution(tree, dist, param)]
    /\ UNCHANGED <<tree, store, log>>

\* var.fit(dist, tree, unique); best is the class of the variable type's list
\* that scores lowest on the series
ExplicitFit ==
    /\ last.op = "metasynth.detect"
    /\ \E dist \in ExplicitRefs, param \in ParamValues, unique \in UniqueArgs,
          best \in 1..ListLen(tree, store[1].var_type) :
         LET r == LegacyFit(store[1], dist, tree, unique, best, param) IN
         /\ last' = [op |-> "metasynth.fit", ref |-> dist, param |-> param, best |-> best,
                     unique |-> unique, out |-> r]
         /\ store' = IF r.status = "ok"
                     THEN [store EXCEPT ![1].distribution = r.value, ![1].origin = "fit"]
                     ELSE store
    /\ UNCHANGED <<tree, log>>

NextExplicit == TreeFitDistribution \/ ExplicitFit

SpecExplicit == InitExplicit /\ [][NextExplicit]_vars

\* the classes of the tree that answer to the name
NamedClasses(name) == {c \in SeqRange(AllLists(tree, 1)) : is_named(c, name)}

\* C20: an explicit fit with a name returns the class found for the name,
\* fitted to the series; with a class, that class fitted to the series; with
\* an instance, that instance as it is, whatever the series; one distribution
\* is returned, it is the one the variable holds after its fit, and neither
\* the scores of the classes nor the uniqueness argument play a part (no
\* ranking, no warning)
C20_ExplicitSelection ==
    last.op \in {"tree.fit_distribution", "metasynth.fit"} =>
        /\ (last.ref.form = "str" /\ NamedClasses(last.ref.ref) # {}) =>
               /\ last.out.status = "ok"
               /\ last.out.value.cls \in NamedClasses(last.ref.ref)
               /\ last.out.value.param = last.param
        /\ last.ref.form = "class" =>
               /\ last.out.status = "ok"
               /\ last.out.value.cls = last.ref.ref
               /\ last.out.value.param = last.param
        /\ last.ref.form = "instance" =>
               /\ last.out.status = "ok"
               /\ last.out.value = last.ref.inst
        /\ ~last.out.warned
        /\ (last.op = "metasynth.fit" /\ last.out.status = "ok") =>
               store[1].distribution = last.out.value

\* an instance fitted elsewhere was given to the fit of a column that would
\* fit with other parameters and whose best-scoring class is unique: the
\* variable holds that instance
C20_Witness ==
    /\ last.op = "metasynth.fit"
    /\ last.ref.form = "instance"
    /\ last.ref.inst.param # last.param
    /\ last.unique = None
    /\ store[1].var_type = "discrete"
    /\ tree = BuiltinDistributionTree
    /\ ClassIsUnique(tree["discrete"][last.best])
    /\ store[1].distribution = last.ref.inst

\* a name was given by its alias and the class found was fitted
C20_WitnessName ==
    /\ last.op = "tree.fit_distribution"
    /\ last.ref.form = "str"
    /\ last.ref.ref = "normal"
    /\ last.out.value = SeriesFit("NormalDistribution", last.param)

(***************************************************************************)
(* Specification SpecLife: several variables alive, fitted in any order.   *)
(***************************************************************************)
\* most variables alive at once
MaxVars == 2

LifeSeries == {[name |-> "col", storage |-> "integer", len |-> 1, n_missing |-> 0]}

LifeRefs ==
    {NoRef, [NoRef EXCEPT !.form = "other"], [NoRef EXCEPT !.form = "str", !.ref = "normal"]}

NextLife ==
    \/ Detect(MaxVars, LifeSeries)
    \/ Construct(MaxVars, {NoProp})
    \/ LegacyFitStep(LifeRefs, {0})
    \/ FitStep(MaxVars, LifeSeries, LifeRefs, {NoProp}, {0}, {None})

SpecLife == InitVar /\ [][NextLife]_vars

\* the fields of a variable other than its distribution
Identity(v) == <<v.impl, v.name, v.var_type, v.dtype, v.prop_missing, v.description>>

\* C7 as stated: no fit mutates an existing variable in place; the name,
\* var_type, dtype, prop_missing and distribution of every existing variable
\* are the same after any step
C7_NoVariableEverChanges ==
    [][\A i \in 1..Len(store) :
          /\ Len(store') >= i
          /\ Identity(store'[i]) = Identity(store[i])
          /\ store'[i].distribution = store[i].distribution]_vars

\* C7 as amended: no step removes a variable, changes the name, var_type, dtype
\* or prop_missing of an existing variable, or takes its distribution away; a
\* variable of metasyn never changes, and a metasyn fit that succeeds adds one
\* new fitted variable; the only change to an existing variable is the legacy
\* fit setting, in place, the distribution of the variable it is called on
C7_FitFrame ==
    [][/\ \A i \in 1..Len(store) :
             /\ Len(store') >= i
             /\ Identity(store'[i]) = Identity(store[i])
             /\ store[i].distribution # NoDist => store'[i].distribution # NoDist
             /\ store[i].impl = "metasyn" => store'[i] = store[i]
             /\ store'[i] # store[i] =>
                    /\ store[i].impl = "metasynth"
                    /\ last'.op = "metasynth.fit"
                    /\ last'.slot = i
                    /\ last'.status = "ok"
       /\ (last'.op = "metasyn.fit" /\ last'.status = "ok") =>
             /\ Len(store') = Len(store) + 1
             /\ store'[Len(store')].distribution # NoDist
             /\ store'[Len(store')].impl = "metasyn"
      ]_vars

\* a legacy variable was fitted in place while a fitted metasyn variable,
\* created before, was alive
C7_Witness ==
    /\ Len(store) = 2
    /\ store[1].impl = "metasyn"
    /\ store[1].origin = "fit"
    /\ store[2].impl = "metasynth"
    /\ store[2].distribution # NoDist
    /\ last.op = "metasynth.fit"
    /\ last.slot = 2
    /\ last.status = "ok"

(***************************************************************************)
(* Drawing (MetaVar.draw, MetaVar.draw_series, both versions).             *)
(***************************************************************************)
\* longest series drawn
MaxN == 2

\* the absent marker (None) among drawn values, which are naturals
Absent == -1

\* distribution.draw(): the value drawn when drawn values were drawn since the
\* last draw_reset (sampling without replacement walks on from the parameter)
DistDraw(dist, drawn) == dist.param + drawn

\* what a call left behind: the calls it made on the random generator and on
\* the distribution, the value returned and the distribution's count of values
\* drawn since its last draw_reset
DrawRaise(err, drawn) == [status |-> err, calls |-> <<>>, values |-> <<>>, drawn |-> drawn]

\* draw comparing with <= instead of <
DrawAtMost(v, rand, drawn) ==
    IF v.impl = "metasynth" /\ v.distribution = NoDist
    THEN DrawRaise("ValueError: Cannot draw without distribution", drawn)
    ELSE IF rand <= v.prop_missing
    THEN [status |-> "ok", calls |-> <<"rand">>, values |-> <<Absent>>, drawn |-> drawn]
    ELSE IF v.distribution = NoDist THEN DrawRaise("AttributeError", drawn)
    ELSE [status |-> "ok", calls |-> <<"rand", "distribution.draw">>,
          values |-> <<DistDraw(v.distribution, drawn)>>, drawn |-> drawn + 1]

\* MetaVar.draw(), both versions; rand is the number numpy.random.rand() gives
draw(v, rand, drawn) ==
    IF v.impl = "metasynth" /\ v.distribution = NoDist
    THEN DrawRaise("ValueError: Cannot draw without distribution", drawn)
    ELSE IF rand < v.prop_missing
    THEN [status |-> "ok", calls |-> <<"rand">>, values |-> <<Absent>>, drawn |-> drawn]
    ELSE IF v.distribution = NoDist THEN DrawRaise("AttributeError", drawn)
    ELSE [status |-> "ok", calls |-> <<"rand", "distribution.draw">>,
          values |-> <<DistDraw(v.distribution, drawn)>>, drawn |-> drawn + 1]

\* [self.draw() for _ in range(n)], rands the numbers the generator gives
RECURSIVE DrawList(_, _, _)
DrawList(v, rands, drawn) ==
    IF Len(rands) = 0 THEN [status |-> "ok", calls |-> <<>>, values |-> <<>>, drawn |-> drawn]
    ELSE LET first == draw(v, Head(rands), drawn)
             rest == DrawList(v, Tail(rands), first.drawn)
         IN  IF first.status # "ok" THEN first
             ELSE IF rest.status # "ok" THEN rest
             ELSE [status |-> "ok", calls |-> first.calls \o rest.calls,
                   values |-> first.values \o rest.values, drawn |-> rest.drawn]

\* draw_series resetting the distribution before every draw
RECURSIVE DrawListResetting(_, _)
DrawListResetting(v, rands) ==
    IF Len(rands) = 0 THEN [status |-> "ok", calls |-> <<>>, values |-> <<>>, drawn |-> 0]
    ELSE LET first == draw(v, Head(rands), 0)
             rest == DrawListResetting(v, Tail(rands))
         IN  [status |-> "ok", calls |-> <<"draw_reset">> \o first.calls \o rest.calls,
              values |-> first.values \o rest.values, drawn |-> first.drawn]

DrawSeriesResetsEachDraw(v, rands, drawn) ==
    IF v.distribution = NoDist THEN DrawRaise("ValueError: Cannot draw without distribution", drawn)
    ELSE DrawListResetting(v, rands)

\* MetaVar.draw_series(n), both versions, n = Len(rands); drawn is the count the
\* distribution holds when the call starts
draw_series(v, rands, drawn) ==
    IF v.distribution = NoDist
    THEN DrawRaise(IF v.impl = "metasynth" THEN "ValueError: Cannot draw without distribution"
                   ELSE "AttributeError", drawn)
    ELSE LET list == DrawList(v, rands, 0)
         IN  IF list.status # "ok" THEN list
             ELSE [list EXCEPT !.calls = <<"draw_reset">> \o list.calls]

\* numbers the random generator gives, in [0, 1): 0, 0.5, 1 - 1e-8
Rands == {0, Unit \div 2, Unit - 1}

\* prop_missing of the variables drawn from: -1e-8, 0, 0.5, 1, 1 + 1e-8
DrawProps == {-1, 0, Unit \div 2, Unit, Unit + 1}

NoDraw == [op |-> "none", rands |-> <<>>, status |-> "none", calls |-> <<>>,
           values |-> <<>>, drawn |-> 0]

(***************************************************************************)
(* Specification SpecDraw: one variable, constructed with or without a     *)
(* distribution, drawn from again and again.                               *)
(***************************************************************************)
InitDraw ==
    /\ tree = BuiltinDistributionTree
    /\ last = NoCall
    /\ log = NoDraw
    /\ \E prop_missing \in DrawProps,
          distribution \in {NoDist, SeriesFit("UniqueKeyDistribution", 1),
                            SeriesFit("PoissonDistribution", 0)} :
         \/ store = <<MetaVarInit("col", "discrete", distribution, "int64", None,
                                  prop_missing).var>>
         \/ store = <<LegacyInit("discrete", NoSeries, "col", distribution, prop_missing,
                                 "int64").var>>

\* var.draw_series(n)
DrawSeries ==
    \E n \in 0..MaxN :
      \E rands \in [1..n -> Rands] :
        LET r == draw_series(store[1], rands, log.drawn) IN
        /\ log' = [op |-> "draw_series", rands |-> rands, status |-> r.status,
                   calls |-> r.calls, values |-> r.values, drawn |-> r.drawn]
        /\ UNCHANGED <<tree, store, last>>

\* var.draw(), while the distribution has drawn fewer than MaxN values
Draw ==
    \E rand \in Rands :
        LET r == draw(store[1], rand, log.drawn) IN
        /\ log.drawn < MaxN
        /\ log' = [op |-> "draw", rands |-> <<rand>>, status |-> r.status,
                   calls |-> r.calls, values |-> r.values, drawn |-> r.drawn]
        /\ UNCHANGED <<tree, store, last>>

NextDraw == DrawSeries \/ Draw

SpecDraw == InitDraw /\ [][NextDraw]_vars

\* the number of calls named c among the calls
Count(calls, c) == Cardinality({k \in 1..Len(calls) : calls[k] = c})

\* C8: draw_series(n) on a fitted variable calls distribution.draw_reset()
\* exactly once, before any draw, then draws n times at the variable level,
\* and returns exactly n values
C8_ResetOnceThenNDraws ==
    (log.op = "draw_series" /\ store[1].distribution # NoDist) =>
        /\ log.status = "ok"
        /\ Len(log.calls) >= 1
        /\ log.calls[1] = "draw_reset"
        /\ Count(log.calls, "draw_reset") = 1
        /\ Count(log.calls, "rand") = Len(log.rands)
        /\ Len(log.values) = Len(log.rands)

\* a series of the greatest length was drawn, with absent and drawn values
C8_Witness ==
    /\ log.op = "draw_series"
    /\ log.status = "ok"
    /\ Len(log.values) = MaxN
    /\ \E k \in 1..MaxN : log.values[k] = Absent
    /\ \E k \in 1..MaxN : log.values[k] # Absent

\* a series of length 0 was drawn
C8_WitnessEmpty ==
    /\ log.op = "draw_series"
    /\ log.status = "ok"
    /\ log.calls = <<"draw_reset">>
    /\ log.values = <<>>

\* C9: a draw returns the absent marker exactly when the random number is below
\* prop_missing and otherwise the value of one call of distribution.draw();
\* with prop_missing = 0 no value of a series is absent, with prop_missing = 1
\* all are and distribution.draw() is never called
C9_MissingDraw ==
    (log.op \in {"draw", "draw_series"} /\ log.status = "ok") =>
        /\ \A k \in 1..Len(log.values) :
              /\ log.values[k] = Absent <=> log.rands[k] < store[1].prop_missing
              /\ log.values[k] # Absent => log.values[k] >= store[1].distribution.param
        /\ Count(log.calls, "distribution.draw") =
              Cardinality({k \in 1..Len(log.values) : log.values[k] # Absent})
        /\ Count(log.calls, "rand") = Len(log.values)
        /\ store[1].prop_missing = 0 => \A k \in 1..Len(log.values) : log.values[k] # Absent
        /\ store[1].prop_missing = Unit =>
              /\ \A k \in 1..Len(log.values) : log.values[k] = Absent
              /\ Count(log.calls, "distribution.draw") = 0

\* with prop_missing = 0.5 one random number fell below it and one did not
C9_Witness ==
    /\ log.op = "draw_series"
    /\ log.status = "ok"
    /\ store[1].prop_missing = Unit \div 2
    /\ \E k \in 1..Len(log.values) : log.values[k] = Absent
    /\ \E k \in 1..Len(log.values) : log.values[k] # Absent

\* with prop_missing = 0 the random number 0 gave a drawn value
C9_WitnessZero ==
    /\ log.op = "draw_series"
    /\ log.status = "ok"
    /\ store[1].prop_missing = 0
    /\ Len(log.values) = MaxN
    /\ log.rands[1] = 0

\* C19: on a variable with no distribution, draw() and draw_series(n) raise
\* ValueError("Cannot draw without distribution") and produce no value (the
\* variable itself is never changed by a draw)
C19_UnfitDrawFails ==
    (store[1].distribution = NoDist /\ log.op \in {"draw", "draw_series"}) =>
        /\ log.status = "ValueError: Cannot draw without distribution"
        /\ log.values = <<>>
        /\ log.calls = <<>>

(***************************************************************************)
(* Specification SpecPar: two threads, each running draw_series once on a  *)
(* variable of its own.  The variables hold distribution instances of      *)
(* their own (each fitted by its own call of fit) or one instance that was *)
(* given to both (fit with an instance assigns that very instance).  The   *)
(* calls draw_series makes on the distribution are the steps.              *)
(***************************************************************************)
Threads == {1, 2}

\* the instance the distribution of the t-th fitted variable is: dist.fit(series)
\* makes a new instance at every call
InstanceSharedByAll(t) == 1

InstanceOf(t) == t

\* the variable thread t draws from
ParVar(t) ==
    MetaVarInit("col", "discrete", SeriesFit("PoissonDistribution", 0), "int64", None,
                Unit \div 2).var

InitPar ==
    /\ tree = BuiltinDistributionTree
    /\ store = [t \in Threads |-> ParVar(t)]
    /\ \/ last = [op |-> "fit per variable", instance |-> [t \in Threads |-> InstanceOf(t)]]
       \/ last = [op |-> "fit with one instance", instance |-> [t \in Threads |-> 1]]
    /\ log = [pc |-> [t \in Threads |-> "idle"], left |-> [t \in Threads |-> 0],
              events |-> [d \in Threads |-> <<>>], drawn |-> [d \in Threads |-> 0]]

\* thread t calls var.draw_series(n)
StartSeries(t) ==
    /\ log.pc[t] = "idle"
    /\ \E n \in 0..MaxN :
         log' = [log EXCEPT !.pc[t] = "draw_reset", !.left[t] = n]
    /\ UNCHANGED <<tree, store, last>>

\* self.distribution.draw_reset()
ResetStep(t) ==
    LET d == last.instance[t] IN
    /\ log.pc[t] = "draw_reset"
    /\ log' = [log EXCEPT !.pc[t] = IF log.left[t] = 0 THEN "done" ELSE "draw",
                          !.events[d] = Append(@, [thread |-> t, call |-> "draw_reset"]),
                          !.drawn[d] = 0]
    /\ UNCHANGED <<tree, store, last>>

\* one self.draw() of the list of draw_series
DrawStep(t) ==
    LET d == last.instance[t] IN
    /\ log.pc[t] = "draw"
    /\ \E rand \in {0, Unit - 1} :
         LET r == draw(store[t], rand, log.drawn[d]) IN
         log' = [log EXCEPT !.pc[t] = IF log.left[t] = 1 THEN "done" ELSE "draw",
                            !.left[t] = @ - 1,
                            !.events[d] = IF r.drawn # log.drawn[d]
                                          THEN Append(@, [thread |-> t, call |-> "draw"])
                                          ELSE @,
                            !.drawn[d] = r.drawn]
    /\ UNCHANGED <<tree, store, last>>

NextPar == \E t \in Threads : StartSeries(t) \/ ResetStep(t) \/ DrawStep(t)

SpecPar == InitPar /\ [][NextPar]_vars

\* no draw_reset of another thread lies between two calls one thread made on
\* the distribution d for its series
Uninterrupted(d) ==
    LET e == log.events[d] IN
    \A i \in 1..Len(e), k \in 1..Len(e), j \in 1..Len(e) :
        (i < k /\ k < j /\ e[i].thread = e[j].thread /\ e[k].thread # e[i].thread) =>
            e[k].call # "draw_reset"

\* C18: with one thread per variable and every variable holding the
\* distribution its own fit made, the calls on a distribution all come from
\* its variable's thread, and no draw_reset of another thread falls between
\* the draw_reset and the last draw of a series
C18_ThreadPerVariable ==
    last.op = "fit per variable" =>
        \A d \in Threads :
            /\ Uninterrupted(d)
            /\ \A k \in 1..Len(log.events[d]) :
                  /\ last.instance[log.events[d][k].thread] = d
                  /\ log.events[d][k].call = "draw_reset" <=> k = 1

\* both threads drew a series of the greatest length, no value absent, each
\* from the distribution of its own variable
C18_Witness ==
    /\ last.op = "fit per variable"
    /\ \A t \in Threads : log.pc[t] = "done" /\ Len(log.events[t]) = MaxN + 1
    /\ Uninterrupted(1) /\ Uninterrupted(2)

\* with one instance given to both variables, the draw_reset of one thread
\* fell between two draws of the other thread's series
C18_WitnessRace ==
    /\ last.op = "fit with one instance"
    /\ ~Uninterrupted(1)
    /\ \E i \in 1..Len(log.events[1]), k \in 1..Len(log.events[1]),
          j \in 1..Len(log.events[1]) :
            /\ i < k /\ k < j
            /\ log.events[1][i] = [thread |-> 2, call |-> "draw"]
            /\ log.events[1][k] = [thread |-> 1, call |-> "draw_reset"]
            /\ log.events[1][j] = [thread |-> 2, call |-> "draw"]

====
